---- MODULE Spec2Model ----
(***************************************************************************)
(* Model of simulation_cpu/process_point_data.py (function main): the      *)
(* extraction of a window of recorded samples and a range of sample points *)
(* from the segment files of one sampling run.                             *)
(*                                                                         *)
(* Time values are integers counted in units of 1e-8 (numpy's default      *)
(* absolute tolerance), so that numpy.isclose is computed exactly.         *)
(* Slots and absolute sample indices are 0-based as in the source; TLA+    *)
(* sequences are 1-based, so slot n of sortIndex is sortIndex[n + 1].      *)
(***************************************************************************)
EXTENDS Integers, Sequences, FiniteSets, TLC

VARIABLES
    args,               \* the command line (timestep_range, time_range, input_points)
    file_names,         \* the segment files the glob matches, in sorted filename order
    nc_files,           \* the opened segment files (Dataset objects), never closed by main
    open_datasets,      \* the positions in nc_files of the Dataset objects that are open
    sortIndex,          \* variables["sortIndex"] of the first segment: slot -> identity
    var_names,          \* the var_* attributes of pointStates of the first segment
    pc,                 \* position of main
    exit_status,        \* -1 while running, 0 after a normal return, 1 after exit(1)
    point_start, point_end,
    range_selection, range_start, range_end, select_by_timesteps,
    save_index, save_index_start, save_index_end,
    warnings,           \* the WARNING lines printed, in order
    reverse_index,
    output_open,        \* whether the output handle has been opened
    header,             \* the header line, a sequence of column names
    rows                \* the data rows, in the order written

vars == <<args, file_names, nc_files, open_datasets, sortIndex, var_names, pc, exit_status, point_start,
          point_end, range_selection, range_start, range_end,
          select_by_timesteps, save_index, save_index_start, save_index_end,
          warnings, reverse_index, output_open, header, rows>>

(***************************************************************************)
(* Bounds of the explored inputs.                                          *)
(***************************************************************************)
MaxSamples == 3     \* samples of a run, all segments together
MaxSegs == 2        \* segment files of a run
MaxStep == 2        \* largest recorded step index
MaxPoints == 3      \* storage slots of a segment
MaxVars == 2        \* variables per point
Dt == 10000000      \* time between two steps, in units of 1e-8
Near == 1           \* a perturbation of a time value within the tolerance everywhere
Far == 150          \* a perturbation within the relative tolerance only for large times

(***************************************************************************)
(* numpy.isclose(a, b) with its default tolerances rtol = 1e-05 and        *)
(* atol = 1e-08: |a - b| <= atol + rtol * |b|.  In units of 1e-8, a, b     *)
(* integers: |a - b| <= 1 + |b| / 100000, i.e. |a - b| - 1 <= floor(..).   *)
(***************************************************************************)
Atol == 1
RtolInv == 100000
Second == 100000000 \* 1.0 in units of 1e-8: the Python literal -1 is -Second as a time

Abs(x) == IF x < 0 THEN -x ELSE x

IsClose(a, b) == Abs(a - b) <= Atol + (Abs(b) \div RtolInv)

\* def equal(a, b), closed over select_by_timesteps
equal(by_steps, a, b) == IF by_steps THEN a = b ELSE IsClose(a, b)

(***************************************************************************)
(* The scan of one sample i at absolute index si (lines 134-141).          *)
(***************************************************************************)
\* variants of the rules, as a slip in the source would make them
StartRuleStrict(i, rs, sis, si) == IF i > rs /\ sis = -1 THEN si ELSE sis

StartRule(i, rs, sis, si) == IF i >= rs /\ sis = -1 THEN si ELSE sis

ExceededRule(i, re, sie, si) == IF i > re /\ sie = -1 THEN si - 1 ELSE sie

EqualRuleLast(by_steps, i, re, sie, si) == IF equal(by_steps, i, re) THEN si ELSE sie

EqualRule(by_steps, i, re, sie, si) ==
    IF equal(by_steps, i, re) /\ sie = -1 THEN si ELSE sie

\* the two end rules with the equality test first
EndRulesEqualFirst(by_steps, i, re, sie, si) ==
    ExceededRule(i, re, EqualRule(by_steps, i, re, sie, si), si)

\* the two end rules in source order: exceeded first, then equal
EndRules(by_steps, i, re, sie, si) ==
    EqualRule(by_steps, i, re, ExceededRule(i, re, sie, si), si)

(***************************************************************************)
(* The defaults applied after the scan (lines 143-155); si is the number   *)
(* of samples scanned, unset the value of the literal -1 in the units of   *)
(* range_end.                                                              *)
(***************************************************************************)
MinusOne(by_steps) == IF by_steps THEN -1 ELSE -Second

StartWarning == "WARNING: Could not find selected beginning."
EndWarning == "WARNING: Could not find selected end."

\* the defaults without the branch of line 151-152
DefaultsNoSingle(by_steps, sis, sie, si, re, rsel) ==
    LET warnStart == sis = -1 /\ rsel
        warnEnd == sie = -1 /\ re # MinusOne(by_steps) /\ rsel
    IN  [start |-> IF ~rsel \/ warnStart THEN 0 ELSE sis,
         end |-> IF ~rsel \/ warnEnd THEN si - 1 ELSE sie,
         warnings |-> (IF warnStart THEN <<StartWarning>> ELSE <<>>)
                      \o (IF warnEnd THEN <<EndWarning>> ELSE <<>>)]

Defaults(by_steps, sis, sie, si, re, rsel) ==
    LET warnStart == sis = -1 /\ rsel
        start1 == IF warnStart THEN 0 ELSE sis
        warnEnd == sie = -1 /\ re # MinusOne(by_steps) /\ rsel
        end1 == IF warnEnd THEN si - 1
                ELSE IF re = MinusOne(by_steps) /\ rsel THEN start1
                ELSE sie
    IN  [start |-> IF ~rsel THEN 0 ELSE start1,
         end |-> IF ~rsel THEN si - 1 ELSE end1,
         warnings |-> (IF warnStart THEN <<StartWarning>> ELSE <<>>)
                      \o (IF warnEnd THEN <<EndWarning>> ELSE <<>>)]

(***************************************************************************)
(* The whole Range Resolver as a function of the scanned series: the fold  *)
(* of the scan over the samples, then the defaults.                        *)
(***************************************************************************)
RECURSIVE ScanFrom(_, _, _, _, _, _, _)
ScanFrom(by_steps, vals, rs, re, sis, sie, si) ==
    IF si >= Len(vals) THEN [start |-> sis, end |-> sie]
    ELSE ScanFrom(by_steps, vals, rs, re,
                  StartRule(vals[si + 1], rs, sis, si),
                  EndRules(by_steps, vals[si + 1], re, sie, si),
                  si + 1)

Resolve(by_steps, vals, rs, re, rsel) ==
    LET s == ScanFrom(by_steps, vals, rs, re, -1, -1, 0)
    IN  Defaults(by_steps, s.start, s.end, Len(vals), re, rsel)

(***************************************************************************)
(* The Run: the series of all segments concatenated in file order.         *)
(***************************************************************************)
RECURSIVE Concat(_, _)
Concat(files, field) ==
    IF files = <<>> THEN <<>>
    ELSE Head(files)[field] \o Concat(Tail(files), field)

\* the series the scan iterates (lines 130-133)
Series(files, by_steps) == Concat(files, IF by_steps THEN "timeStep" ELSE "time")

(***************************************************************************)
(* Point Selector (lines 164-170).                                         *)
(***************************************************************************)
\* i in range(point_start-1, point_end)
InRange(i, ps, pe) == ps - 1 <= i /\ i < pe

\* the loop of lines 167-169: the pairs (n, i) of the slots kept, in slot order
Collected(sidx, ps, pe) ==
    LET all == [m \in 1..Len(sidx) |-> <<m - 1, sidx[m]>>]
        Keep(x) == InRange(x[2], ps, pe)
    IN  SelectSeq(all, Keep)

\* sorted(..., key=lambda x: x[1]): stable, ascending by identity
RECURSIVE InsertByKey(_, _)
InsertByKey(x, sorted) ==
    IF sorted = <<>> THEN <<x>>
    ELSE IF x[2] < Head(sorted)[2] THEN <<x>> \o sorted
    ELSE <<Head(sorted)>> \o InsertByKey(x, Tail(sorted))

RECURSIVE SortedByKey(_)
SortedByKey(xs) ==
    IF xs = <<>> THEN <<>>
    ELSE InsertByKey(xs[Len(xs)], SortedByKey(SubSeq(xs, 1, Len(xs) - 1)))

ReverseIndexUnsorted(sidx, ps, pe) ==
    LET c == Collected(sidx, ps, pe) IN [m \in 1..Len(c) |-> c[m][1]]

ReverseIndex(sidx, ps, pe) ==
    LET c == SortedByKey(Collected(sidx, ps, pe)) IN [m \in 1..Len(c) |-> c[m][1]]

(***************************************************************************)
(* Table Emitter (lines 172-207).                                          *)
(***************************************************************************)
\* files_with_meta: the offset of segment f (1-based position in files)
RECURSIVE Offset(_, _)
Offset(files, f) ==
    IF f <= 1 THEN 0 ELSE Offset(files, f - 1) + Len(files[f - 1].timeStep)

\* lines 184-188: "time_step time " then "<var>_p<i> " point-major
HeaderLine(names, ps, pe) ==
    LET nv == Len(names)
        np == IF pe >= ps THEN pe - ps + 1 ELSE 0
    IN  <<[name |-> "time_step", p |-> 0], [name |-> "time", p |-> 0]>>
        \o [m \in 1..(np * nv) |->
               [name |-> names[((m - 1) % nv) + 1], p |-> ps + ((m - 1) \div nv)]]

\* lines 199-202: the values of one row, each named by the place it is read
\* from: pointStates[j, i, k] of the segment
\* the values written variable by variable instead of point by point
StateCellsVarMajor(ridx, nv, i) ==
    [m \in 1..(Len(ridx) * nv) |->
        [slot |-> ridx[((m - 1) % Len(ridx)) + 1], sample |-> i,
         var |-> (m - 1) \div Len(ridx)]]

StateCells(ridx, nv, i) ==
    [m \in 1..(Len(ridx) * nv) |->
        [slot |-> ridx[((m - 1) \div nv) + 1], sample |-> i, var |-> (m - 1) % nv]]

\* line 193-194
InWindowStrict(abs, ws, we) == ws < abs /\ we >= abs

InWindow(abs, ws, we) == ws <= abs /\ we >= abs

\* the rows one segment contributes (lines 192-207)
RowsOfFile(files, f, ridx, nv, ws, we) ==
    LET seg == files[f]
        off == Offset(files, f)
        all == [m \in 1..Len(seg.timeStep) |->
                   [file |-> f - 1, i |-> m - 1,
                    timeStep |-> seg.timeStep[m], time |-> seg.time[m],
                    states |-> StateCells(ridx, nv, m - 1)]]
        Keep(r) == InWindow(r.i + off, ws, we)
    IN  SelectSeq(all, Keep)

RECURSIVE RowsUpTo(_, _, _, _, _, _)
RowsUpTo(files, f, ridx, nv, ws, we) ==
    IF f = 0 THEN <<>>
    ELSE RowsUpTo(files, f - 1, ridx, nv, ws, we)
         \o RowsOfFile(files, f, ridx, nv, ws, we)

DataRows(files, ridx, nv, ws, we) == RowsUpTo(files, Len(files), ridx, nv, ws, we)

(***************************************************************************)
(* The inputs explored.  A range option (-s, -t, -p) is "all", one number  *)
(* ("scalar") or two numbers around one colon ("pair").                    *)
(***************************************************************************)
All == [kind |-> "all", lo |-> 0, hi |-> 0]
Scalar(v) == [kind |-> "scalar", lo |-> v, hi |-> v]
Pair(a, b) == [kind |-> "pair", lo |-> a, hi |-> b]

RangesOver(V) == {Scalar(v) : v \in V} \cup {Pair(a, b) : a \in V, b \in V}

\* recorded steps are 0..MaxStep and recorded times near the grid k * Dt; the
\* requested values also lie one below and one above what is recorded
StepValues == 0..MaxStep
StepRanges == RangesOver((-1)..(MaxStep + 1))
TimeRanges == RangesOver({-Second} \cup {k * Dt : k \in 0..(MaxStep + 1)})
PointRanges == RangesOver(0..(MaxPoints + 1))

RECURSIVE Sum(_)
Sum(l) == IF l = <<>> THEN 0 ELSE Head(l) + Sum(Tail(l))

\* the ways to cut n samples into segments: non-empty ones, or one empty segment
Cuts(n) ==
    IF n = 0 THEN {<<0>>}
    ELSE UNION {{l \in [1..k -> 1..n] : Sum(l) = n} : k \in 1..MaxSegs}

NonDecreasing(q) == \A m \in 1..(Len(q) - 1) : q[m] <= q[m + 1]

\* the segments of lengths lens holding the samples steps/times in order
Segments(steps, times, lens) ==
    [f \in 1..Len(lens) |->
        LET off == Sum(SubSeq(lens, 1, f - 1))
        IN  [timeStep |-> SubSeq(steps, off + 1, off + lens[f]),
             time |-> SubSeq(times, off + 1, off + lens[f])]]

\* perturbations of the recorded times: at most one sample of a run is off
\* the grid k * Dt, by Near or by Far
Jitters(n) ==
    {j \in [1..n -> {-Far, -Near, 0, Near, Far}] :
        Cardinality({m \in 1..n : j[m] # 0}) <= 1}

RunsWith(n, jitters) ==
    {r \in {Segments(st, [m \in 1..n |-> st[m] * Dt + j[m]], l) :
              st \in [1..n -> StepValues], j \in jitters, l \in Cuts(n)} :
        \A f \in 1..Len(r) : NonDecreasing(r[f].timeStep) /\ NonDecreasing(r[f].time)}

\* runs whose times are exactly on the grid, and runs with a perturbed time;
\* a segment's series are non-decreasing, two segments may overlap
ExactRuns == UNION {RunsWith(n, {[m \in 1..n |-> 0]}) : n \in 0..MaxSamples}
NoisyRuns == UNION {RunsWith(n, Jitters(n)) : n \in 0..MaxSamples}

\* two segments, steps [0, 1] and [2]
ScenarioRun == Segments(<<0, 1, 2>>, <<0, Dt, 2 * Dt>>, <<2, 1>>)

AllVarNames == <<"rho", "u", "v", "w", "p">>
VarNameLists == {SubSeq(AllVarNames, 1, n) : n \in 1..MaxVars}

\* slot -> identity mappings: permutations and mappings with repeated or
\* missing identities alike
SortIndexes == UNION {[1..n -> 0..(n - 1)] : n \in 1..MaxPoints}

InitProgram ==
    /\ nc_files = <<>>
    /\ open_datasets = {}
    /\ pc = "start"
    /\ exit_status = -1
    /\ point_start = 0
    /\ point_end = 0
    /\ range_selection = FALSE
    /\ range_start = -1
    /\ range_end = -1
    /\ select_by_timesteps = FALSE
    /\ save_index = 0
    /\ save_index_start = -1
    /\ save_index_end = -1
    /\ warnings = <<>>
    /\ reverse_index = <<>>
    /\ output_open = FALSE
    /\ header = <<>>
    /\ rows = <<>>

\* every run and every step or time selection, over two points stored in
\* reverse order
InitResolver ==
    /\ \/ /\ file_names \in ExactRuns
          /\ \E r \in StepRanges \cup {All} :
                args = [timestep_range |-> r, time_range |-> All, input_points |-> All]
       \/ /\ file_names \in NoisyRuns
          /\ \E r \in TimeRanges :
                args = [timestep_range |-> All, time_range |-> r, input_points |-> All]
    /\ sortIndex = <<1, 0>>
    /\ var_names = <<"rho">>

\* every mapping and every point selection, over the two-segment run or no
\* file at all, with no range, a step range, or both ranges given
InitSelector ==
    /\ file_names \in {<<>>, ScenarioRun}
    /\ \E s \in {All, Pair(1, 2)}, t \in {All, Pair(Dt, 2 * Dt)}, p \in PointRanges \cup {All} :
          /\ s = All => t = All
          /\ args = [timestep_range |-> s, time_range |-> t, input_points |-> p]
    /\ sortIndex \in SortIndexes
    /\ var_names \in VarNameLists

Init == InitProgram /\ (InitResolver \/ InitSelector)

(***************************************************************************)
(* main, one action per stage.                                             *)
(***************************************************************************)
inputs == <<args, file_names, sortIndex, var_names>>
pointvars == <<point_start, point_end>>
rangevars == <<range_selection, range_start, range_end, select_by_timesteps>>
scanvars == <<save_index, save_index_start, save_index_end, warnings>>
outvars == <<output_open, header, rows>>

\* lines 47-50
CheckSelection ==
    /\ pc = "start"
    /\ IF args.timestep_range # All /\ args.time_range # All
       THEN pc' = "exit" /\ exit_status' = 1
       ELSE pc' = "glob" /\ exit_status' = exit_status
    /\ UNCHANGED <<inputs, nc_files, open_datasets, pointvars, rangevars, scanvars, reverse_index, outvars>>

\* line 59: Dataset(f, "r") opens each matched file; each stays open until its
\* close() is called, and main calls close() nowhere
OpenedDatasets(names) == 1..Len(names)

\* lines 52-59
OpenFiles ==
    /\ pc = "glob"
    /\ IF Len(file_names) = 0
       THEN /\ pc' = "exit" /\ exit_status' = 1
            /\ nc_files' = nc_files /\ open_datasets' = open_datasets
       ELSE /\ pc' = "points" /\ exit_status' = exit_status
            /\ nc_files' = file_names /\ open_datasets' = OpenedDatasets(file_names)
    /\ UNCHANGED <<inputs, pointvars, rangevars, scanvars, reverse_index, outvars>>

\* lines 61-74
ParsedPointStart(p) == IF p = All THEN 1 ELSE p.lo

ParsedPointEnd(p, sidx) ==
    IF p = All THEN Len(sidx) ELSE IF p.kind = "pair" THEN p.hi ELSE p.lo

\* lines 76-86
PointRangeLoose(ps, pe, sidx) == pe >= ps /\ ps >= 0 /\ pe <= Len(sidx)

PointRangeValid(ps, pe, sidx) == ~(pe < ps) /\ ~(ps < 1) /\ ~(pe > Len(sidx))

ParsePoints ==
    /\ pc = "points"
    /\ point_start' = ParsedPointStart(args.input_points)
    /\ point_end' = ParsedPointEnd(args.input_points, sortIndex)
    /\ IF PointRangeValid(point_start', point_end', sortIndex)
       THEN pc' = "range" /\ exit_status' = exit_status
       ELSE pc' = "exit" /\ exit_status' = 1
    /\ UNCHANGED <<inputs, nc_files, open_datasets, rangevars, scanvars, reverse_index, outvars>>

\* lines 88-120
ParseRange ==
    LET selected_range == IF args.time_range # All THEN args.time_range
                          ELSE args.timestep_range
        by_steps == args.timestep_range # All
    IN  /\ pc = "range"
        /\ range_selection' = ~(args.time_range = All /\ args.timestep_range = All)
        /\ select_by_timesteps' = by_steps
        /\ range_start' = IF selected_range = All THEN MinusOne(by_steps)
                          ELSE selected_range.lo
        /\ range_end' = IF selected_range.kind = "pair" THEN selected_range.hi
                        ELSE MinusOne(by_steps)
        /\ save_index' = 0
        /\ save_index_start' = -1
        /\ save_index_end' = -1
        /\ pc' = "scan"
        /\ UNCHANGED <<inputs, nc_files, open_datasets, pointvars, exit_status, warnings,
                       reverse_index, outvars>>

\* lines 128-141, one sample
ScanSample ==
    LET vals == Series(nc_files, select_by_timesteps) IN
    /\ pc = "scan"
    /\ save_index < Len(vals)
    /\ save_index_start' = StartRule(vals[save_index + 1], range_start,
                                     save_index_start, save_index)
    /\ save_index_end' = EndRules(select_by_timesteps, vals[save_index + 1],
                                  range_end, save_index_end, save_index)
    /\ save_index' = save_index + 1
    /\ UNCHANGED <<inputs, nc_files, open_datasets, pc, exit_status, pointvars, rangevars,
                   warnings, reverse_index, outvars>>

\* lines 143-155, after the last sample
FinishScan ==
    LET vals == Series(nc_files, select_by_timesteps)
        d == Defaults(select_by_timesteps, save_index_start, save_index_end,
                      save_index, range_end, range_selection)
    IN  /\ pc = "scan"
        /\ save_index = Len(vals)
        /\ save_index_start' = d.start
        /\ save_index_end' = d.end
        /\ warnings' = warnings \o d.warnings
        /\ pc' = "select"
        /\ UNCHANGED <<inputs, nc_files, open_datasets, exit_status, pointvars, rangevars,
                       save_index, reverse_index, outvars>>

\* lines 157-179
SelectPoints ==
    /\ pc = "select"
    /\ reverse_index' = ReverseIndex(sortIndex, point_start, point_end)
    /\ pc' = "emit"
    /\ UNCHANGED <<inputs, nc_files, open_datasets, exit_status, pointvars, rangevars, scanvars, outvars>>

\* lines 181-211
Emit ==
    /\ pc = "emit"
    /\ output_open' = TRUE
    /\ header' = HeaderLine(var_names, point_start, point_end)
    /\ rows' = DataRows(nc_files, reverse_index, Len(var_names),
                        save_index_start, save_index_end)
    /\ pc' = "done"
    /\ exit_status' = 0
    /\ UNCHANGED <<inputs, nc_files, open_datasets, pointvars, rangevars, scanvars, reverse_index>>

Next ==
    \/ CheckSelection
    \/ OpenFiles
    \/ ParsePoints
    \/ ParseRange
    \/ ScanSample
    \/ FinishScan
    \/ SelectPoints
    \/ Emit

Spec == Init /\ [][Next]_vars

(***************************************************************************)
(* Properties.                                                             *)
(***************************************************************************)
\* the series the Range Resolver scans, its length, and the resolved window
Vals == Series(nc_files, select_by_timesteps)
N == Len(Vals)
Resolved == pc \in {"select", "emit", "done"}
PairSelected == range_selection /\
    (IF select_by_timesteps THEN args.timestep_range ELSE args.time_range).kind = "pair"
ScalarSelected == range_selection /\
    (IF select_by_timesteps THEN args.timestep_range ELSE args.time_range).kind = "scalar"

\* k is the smallest absolute index whose value is >= x
EarliestAtLeast(k, x) ==
    k \in 0..(N - 1) /\ Vals[k + 1] >= x /\ \A m \in 0..(k - 1) : Vals[m + 1] < x

\* k is the largest absolute index whose value is <= x
LatestAtMost(k, x) ==
    k \in 0..(N - 1) /\ Vals[k + 1] <= x /\ \A m \in (k + 1)..(N - 1) : Vals[m + 1] > x

C1_Inside ==
    /\ select_by_timesteps /\ PairSelected
    /\ N >= 1 /\ NonDecreasing(Vals)
    /\ Vals[1] <= range_start /\ range_start <= range_end /\ range_end <= Vals[N]

\* C1: by-step mode, start:end inside a non-decreasing Run: the window start is
\* the smallest index whose step is >= start; the window end is an index whose
\* step is <= end and that is the largest such index or the first index whose
\* step equals end.
C1_StepWindow ==
    (Resolved /\ C1_Inside) =>
        /\ EarliestAtLeast(save_index_start, range_start)
        /\ save_index_end \in 0..(N - 1)
        /\ Vals[save_index_end + 1] <= range_end
        /\ \/ LatestAtMost(save_index_end, range_end)
           \/ /\ Vals[save_index_end + 1] = range_end
              /\ \A m \in 0..(save_index_end - 1) : Vals[m + 1] # range_end

\* a resolved by-step window inside the data that starts after the first sample
\* and ends on the first of two samples equal to end
C1_Witness ==
    /\ pc = "done" /\ C1_Inside
    /\ save_index_start > 0 /\ save_index_end >= save_index_start
    /\ save_index_end < N - 1 /\ Vals[save_index_end + 2] = range_end

Window == [start |-> save_index_start, end |-> save_index_end, warnings |-> warnings]

\* C2 (as claimed): in either mode the bare scalar v resolves to the window and
\* the warnings of the pair v:v.
C2_ScalarAsPair ==
    (Resolved /\ ScalarSelected) =>
        Window = Resolve(select_by_timesteps, Vals, range_start, range_start, TRUE)

\* the first sample with value >= x has exactly the value x, and no earlier
\* sample passes the mode's equality test against x
ExactAtStart(x) ==
    \E k \in 0..(N - 1) :
        /\ EarliestAtLeast(k, x)
        /\ Vals[k + 1] = x
        /\ \A m \in 0..(k - 1) : ~equal(select_by_timesteps, Vals[m + 1], x)

\* C2 (amended): the bare scalar v resolves to the single-sample window [k, k],
\* k the first index whose value is >= v, without warning, or to [0, 0] with
\* the start warning when no value is >= v; this is the window and the
\* warnings of v:v when the first sample with value >= v has exactly the value
\* v and no earlier sample matches v.
C2_ScalarSingle ==
    (Resolved /\ ScalarSelected) =>
        /\ save_index_end = save_index_start
        /\ IF \E k \in 0..(N - 1) : Vals[k + 1] >= range_start
           THEN EarliestAtLeast(save_index_start, range_start) /\ warnings = <<>>
           ELSE save_index_start = 0 /\ warnings = <<StartWarning>>
        /\ ExactAtStart(range_start) =>
              Window = Resolve(select_by_timesteps, Vals, range_start, range_start, TRUE)

\* a scalar selection matched exactly by a sample after the first one
C2_Witness ==
    /\ pc = "done" /\ ScalarSelected /\ ExactAtStart(range_start)
    /\ save_index_start > 0 /\ save_index_start < N - 1

\* C3 (as claimed): for a start:end selection over N >= 1 samples, a start
\* never found (no value >= start) gives the start warning and window start 0,
\* an end the scan did not record gives the end warning and window end N - 1,
\* and no warning is printed otherwise.
C3_Defaulting ==
    [][(pc = "scan" /\ pc' = "select" /\ PairSelected /\ N >= 1) =>
          LET noStart == \A m \in 1..N : Vals[m] < range_start
              noEnd == save_index_end = -1
              added == SubSeq(warnings', Len(warnings) + 1, Len(warnings'))
          IN  /\ noStart => save_index_start' = 0
              /\ noEnd => save_index_end' = N - 1
              /\ added = (IF noStart THEN <<StartWarning>> ELSE <<>>)
                         \o (IF noEnd THEN <<EndWarning>> ELSE <<>>)]_vars

\* the identity stored in slot n, and the identities a point range asks for
Identity(n) == sortIndex[n + 1]
Slots == 0..(Len(sortIndex) - 1)
Requested == (point_start - 1)..(point_end - 1)
EachRequestedOnce ==
    \A id \in Requested : Cardinality({n \in Slots : Identity(n) = id}) = 1

\* C4: the point selection holds exactly the slots whose identity is in
\* [s - 1, e - 1], each once, in ascending order of identity, whatever the
\* slot order; its length is e - s + 1 when every requested identity occurs
\* exactly once in the mapping.
C4_PointSelection ==
    pc \in {"emit", "done"} =>
        /\ \A m \in 1..Len(reverse_index) :
              reverse_index[m] \in Slots /\ Identity(reverse_index[m]) \in Requested
        /\ \A n \in Slots : Identity(n) \in Requested =>
              Cardinality({m \in 1..Len(reverse_index) : reverse_index[m] = n}) = 1
        /\ \A m \in 1..(Len(reverse_index) - 1) :
              Identity(reverse_index[m]) <= Identity(reverse_index[m + 1])
        /\ EachRequestedOnce => Len(reverse_index) = point_end - point_start + 1

\* three points stored in reverse order, all selected
C4_Witness ==
    /\ pc = "done" /\ sortIndex = <<2, 1, 0>>
    /\ point_start = 1 /\ point_end = 3 /\ reverse_index = <<2, 1, 0>>

Conflict == args.timestep_range # All /\ args.time_range # All
NoFiles == Len(file_names) = 0
AskedStart == IF args.input_points.kind = "all" THEN 1 ELSE args.input_points.lo
AskedEnd ==
    IF args.input_points.kind = "all" THEN Len(sortIndex)
    ELSE IF args.input_points.kind = "pair" THEN args.input_points.hi
    ELSE args.input_points.lo
BadPoints == AskedStart < 1 \/ AskedEnd < AskedStart \/ AskedEnd > Len(sortIndex)
NothingWritten == ~output_open /\ header = <<>> /\ rows = <<>> /\ warnings = <<>>

\* C5: with both ranges given, no file matched or a point range with
\* start < 1, end < start or end > point count the run never gets past its
\* checks, which always go on, ends only by exit status 1 and writes nothing
\* (no header, no row, no warning, output not opened); exit status 1 is taken
\* for these reasons only, so a point range inside 1..point count is never
\* rejected.
C5_FatalErrors ==
    /\ (Conflict \/ NoFiles \/ BadPoints) =>
          pc \in {"start", "glob", "points", "exit"} /\ NothingWritten
    /\ pc = "exit" =>
          exit_status = 1 /\ NothingWritten /\ (Conflict \/ NoFiles \/ BadPoints)
    /\ exit_status = 1 => pc = "exit"
    /\ pc = "done" => exit_status = 0
    /\ pc \in {"start", "glob", "points"} =>
          ENABLED (CheckSelection \/ OpenFiles \/ ParsePoints)

\* a run rejected for its point range alone, after the segments were opened
C5_Witness ==
    /\ pc = "exit" /\ exit_status = 1 /\ ~Conflict /\ ~NoFiles
    /\ AskedStart >= 1 /\ AskedEnd >= AskedStart /\ AskedEnd > Len(sortIndex)

\* the absolute index of the sample a row was read from: the sample counts of
\* the earlier segments plus the local index
AbsIndex(r) == Sum([f \in 1..r.file |-> Len(nc_files[f].timeStep)]) + r.i

RowsAreWindow ==
    \A m \in 1..Len(rows) :
        /\ rows[m].file \in 0..(Len(nc_files) - 1)
        /\ rows[m].i \in 0..(Len(nc_files[rows[m].file + 1].timeStep) - 1)
        /\ AbsIndex(rows[m]) = save_index_start + m - 1
        /\ rows[m].timeStep = Concat(nc_files, "timeStep")[AbsIndex(rows[m]) + 1]
        /\ rows[m].time = Concat(nc_files, "time")[AbsIndex(rows[m]) + 1]

\* C6 (as claimed): for every resolved window the rows are the samples of
\* absolute index window_start..window_end, each once, ascending, and their
\* number is window_end - window_start + 1.
C6_RowCount ==
    pc = "done" =>
        Len(rows) = save_index_end - save_index_start + 1 /\ RowsAreWindow

\* C6 (amended): the rows are the samples of the Run with absolute index in
\* window_start..window_end, each once, ascending; their number is
\* window_end - window_start + 1 when the window is not inverted
\* (window_end >= window_start - 1) and lies inside the Run
\* (window_end <= N - 1), and 0 when window_end < window_start or the Run has
\* no sample.
C6_RowsOfWindow ==
    pc = "done" =>
        /\ RowsAreWindow
        /\ Len(rows) = Cardinality({a \in 0..(N - 1) :
                                      save_index_start <= a /\ a <= save_index_end})
        /\ Len(rows) = (IF save_index_end >= save_index_start /\ N > 0
                        THEN save_index_end - save_index_start + 1 ELSE 0)

\* a window of more than one row that starts in the first segment, after its
\* first sample, and ends in the second
C6_Witness ==
    /\ pc = "done" /\ Len(nc_files) = 2 /\ save_index_start > 0
    /\ Len(rows) >= 2 /\ rows[1].file = 0 /\ rows[Len(rows)].file = 1

ColumnsAgree ==
    /\ Len(header) = 2 + Len(reverse_index) * Len(var_names)
    /\ header[1].name = "time_step" /\ header[2].name = "time"
    /\ \A r \in 1..Len(rows) :
          /\ Len(rows[r].states) + 2 = Len(header)
          /\ \A m \in 1..Len(rows[r].states) :
                /\ header[2 + m].name = var_names[rows[r].states[m].var + 1]
                /\ header[2 + m].p - 1 = Identity(rows[r].states[m].slot)
                /\ rows[r].states[m].sample = rows[r].i

\* C7 (as claimed): the header has 2 + selected points * variables names and
\* every row value stands under the name <var>_p<id> of its variable and of
\* the 1-based identity of the slot it is read from.
C7_Columns == pc = "done" => ColumnsAgree

\* C7 (amended): the same, when every requested identity occurs exactly once
\* in the slot-to-identity mapping.
C7_ColumnsWhenOnce == (pc = "done" /\ EachRequestedOnce) => ColumnsAgree

\* rows of two variables for two points stored in the order opposite to
\* their identities
C7_Witness ==
    /\ pc = "done" /\ EachRequestedOnce /\ Len(rows) >= 1
    /\ Len(var_names) = 2 /\ Len(reverse_index) >= 2
    /\ reverse_index[1] > reverse_index[2]

C8_Exceeded ==
    /\ PairSelected /\ NonDecreasing(Vals)
    /\ \A m \in 1..N : ~equal(select_by_timesteps, Vals[m], range_end)
    /\ \E m \in 1..N : Vals[m] > range_end

\* C8 (as claimed): for start:end over a non-decreasing Run with no sample
\* equal to end and some sample > end, the window end is the index just before
\* the first sample > end, also when that sample is the first of the Run, and
\* no sample > end lies inside the window.
C8_ExceededEnd ==
    (Resolved /\ C8_Exceeded) =>
        /\ \E j \in 0..(N - 1) :
              /\ Vals[j + 1] > range_end
              /\ \A m \in 0..(j - 1) : Vals[m + 1] <= range_end
              /\ save_index_end = j - 1
        /\ \A a \in 0..(N - 1) :
              (save_index_start <= a /\ a <= save_index_end) => Vals[a + 1] <= range_end

C9_Found ==
    /\ PairSelected /\ N >= 1 /\ NonDecreasing(Vals)
    /\ \E m \in 1..N : Vals[m] >= range_start
    /\ Vals[1] <= range_end

\* C9 (as claimed): over a non-decreasing Run with repeated values the window
\* start is the earliest sample with value >= start and the window end the
\* latest sample with value <= end, the last one of several samples equal to
\* end.
C9_TiesLatest ==
    (Resolved /\ C9_Found) =>
        /\ EarliestAtLeast(save_index_start, range_start)
        /\ LatestAtMost(save_index_end, range_end)

\* sample k is not above end and passes the mode's equality test against end
MatchesEnd(k) ==
    Vals[k + 1] <= range_end /\ equal(select_by_timesteps, Vals[k + 1], range_end)

\* C9 (amended): the window start is the earliest sample with value >= start;
\* the window end is the first sample that is not above end and equals end
\* (within the tolerance, for times), so the first one of several samples
\* equal to end, and the latest sample with value <= end when no sample
\* matches end.
C9_TiesFirstMatch ==
    (Resolved /\ C9_Found) =>
        /\ EarliestAtLeast(save_index_start, range_start)
        /\ save_index_end \in 0..(N - 1)
        /\ IF \E k \in 0..(N - 1) : MatchesEnd(k)
           THEN MatchesEnd(save_index_end)
                /\ \A k \in 0..(save_index_end - 1) : ~MatchesEnd(k)
           ELSE LatestAtMost(save_index_end, range_end)

\* a by-step window that ends on the first of two samples equal to end
C9_Witness ==
    /\ pc = "done" /\ C9_Found /\ select_by_timesteps
    /\ save_index_end < N - 1
    /\ Vals[save_index_end + 1] = range_end /\ Vals[save_index_end + 2] = range_end

\* the scan of the sample at absolute index save_index
ScanStep == pc = "scan" /\ save_index' = save_index + 1

\* C10 (as claimed): a sample that equals end (steps) or is within the
\* tolerance of end (times), scanned while no window end is recorded, becomes
\* the window end, below or above end and at any index.
C10_MatchRecorded ==
    [][(ScanStep /\ save_index_end = -1
          /\ equal(select_by_timesteps, Vals[save_index + 1], range_end)) =>
             save_index_end' = save_index]_vars

\* C10 (amended): such a sample becomes the window end when it is not above end
\* or is the first sample of the Run; when it is above end and not the first
\* sample, the exceeded rule, which is tested first, records the index before
\* it.  While no window end is recorded no other sample is recorded as the
\* window end; in by-step mode the match is exact integer equality.
C10_MatchUnlessExceeded ==
    [][(ScanStep /\ save_index_end = -1) =>
          LET v == Vals[save_index + 1]
              match == IF select_by_timesteps THEN v = range_end ELSE IsClose(v, range_end)
          IN  /\ (match /\ (v <= range_end \/ save_index = 0)) => save_index_end' = save_index
              /\ (match /\ v > range_end /\ save_index > 0) => save_index_end' = save_index - 1
              /\ ~match => save_index_end' # save_index]_vars

\* by-time mode: the sample last scanned, not the first one, is within the
\* tolerance of end and above it, no earlier sample matched or exceeded end,
\* and the index before it is recorded as the window end
C10_Witness ==
    /\ pc = "scan" /\ ~select_by_timesteps /\ PairSelected
    /\ save_index >= 2
    /\ IsClose(Vals[save_index], range_end) /\ Vals[save_index] > range_end
    /\ \A m \in 1..(save_index - 1) :
          Vals[m] <= range_end /\ ~IsClose(Vals[m], range_end)
    /\ save_index_end = save_index - 2

\* C11 (as claimed): when the run has terminated, by the normal return after
\* the emission or by a fatal exit taken after the segments were opened, every
\* segment file that was opened is closed.
C11_AllClosed == pc \in {"done", "exit"} => open_datasets = {}

====
